---- MODULE Spec2Model ----
(***************************************************************************)
(* A model of ext/sedna.c, the Ruby binding of the Sedna XML database      *)
(* client.  One Sedna object (a Session) is used by two Ruby threads.  The *)
(* C driver (libsedna: SEconnect, SEclose, SEbegin, ...) is the            *)
(* environment: every result code it may return, and what it leaves in the *)
(* SednaConnection struct on failure, is a nondeterministic input.         *)
(*                                                                         *)
(* A C function of the extension is an operator from the connection struct *)
(* and the driver's responses to a record                                  *)
(*      [conn |-> the struct afterwards,                                   *)
(*       calls |-> the driver calls made, in order,                        *)
(*       err |-> the exception raised, or NoErr].                          *)
(* An action is what one Ruby thread does while it holds the interpreter   *)
(* lock: a whole method, or the part of a method up to the point where it  *)
(* yields to a block, waits for the mutex, or enters a blocking region.    *)
(***************************************************************************)
EXTENDS Integers, Sequences, FiniteSets, TLC

\* The Ruby threads that share the Sedna object.
Threads == {1, 2}

\* Bound on the blocks (transaction bodies) that are open at the same time.
MaxDepth == 2

\* Bound of the history counter of SEclose calls per opened connection.
MaxCloses == 2

VARIABLES
    build,         \* "non_blocking" (NON_BLOCKING defined) or "blocking"
    phase,         \* life cycle of the object: allocated, live, failed, freed
    conn,          \* struct SednaConnection, as far as the driver exposes it
    ivAutocommit,  \* @autocommit: "Qtrue", "Qfalse", or "Qnil" while unset
    mutex,         \* @mutex: the thread that holds it, or 0
    pc,            \* where each thread is inside a method of the object
    stack,         \* the blocks each thread is inside of, innermost last
    closes,        \* history: SEclose calls since the last successful SEconnect
    last,          \* observation: the step taken last, and what it did
    peer,          \* a second Sedna object: its @mutex and where each thread is in it
    yielded,       \* the thread inside the block of Sedna.connect, or 0
    sca,           \* struct SCA: the details given to new, stored, passed to SEconnect
    arg,           \* the input of a function that is examined on its own
    out            \* and its outcome

\* What no instance method of the Sedna object changes.
outside == <<build, peer, yielded, sca, arg, out>>

vars == <<build, phase, conn, ivAutocommit, mutex, pc, stack, closes, last,
          peer, yielded, sca, arg, out>>

----------------------------------------------------------------------------
\* Exceptions.

NoErr == [kind |-> "none", code |-> "none"]

\* rb_raise(klass, ...) of the extension itself.
Raise(kind, code) == [kind |-> kind, code |-> code]

\* What a block can unwind with: a raised exception or a thrown symbol.
Signals == {[kind |-> "RuntimeError", code |-> "body"], [kind |-> "Throw", code |-> "body"]}

\* sedna_err as it would be with the default branch alone.
sedna_err_kind_DefaultOnly(res) == "Generic"

\* sedna_err: the exception class is chosen by the result code.
sedna_err_kind(res) ==
    CASE res = "SEDNA_AUTHENTICATION_FAILED" -> "Authentication"
      [] res \in {"SEDNA_OPEN_SESSION_FAILED", "SEDNA_CLOSE_SESSION_FAILED"} -> "Connection"
      [] res \in {"SEDNA_BEGIN_TRANSACTION_FAILED", "SEDNA_ROLLBACK_TRANSACTION_FAILED",
                  "SEDNA_COMMIT_TRANSACTION_FAILED"} -> "Transaction"
      [] OTHER -> "Generic"

sedna_err(res) == [kind |-> sedna_err_kind(res), code |-> res]

\* VERIFY_RES(expected, real, conn)
VERIFY_RES(expected, real) == IF real # expected THEN sedna_err(real) ELSE NoErr

\* The result of a C function.
Ret(c, calls, err) == [conn |-> c, calls |-> calls, err |-> err]

----------------------------------------------------------------------------
\* The driver (libsedna).  A response is the result code together with what
\* the driver leaves in the struct where its contract does not fix it.

\* SEDNA_CONNECTION_INITIALIZER
SEDNA_CONNECTION_INITIALIZER ==
    [isConnectionOk |-> "Closed", inTransaction |-> "None", autocommit |-> TRUE]

\* SEconnect: on success the session is open, no transaction is active and
\* autocommit has the driver's default; on failure the socket is gone but
\* the status field is not necessarily Closed (comment at sedna_connect).
ConnectResponses ==
    {[code |-> "SEDNA_SESSION_OPEN", status |-> "Ok"]}
    \cup [code : {"SEDNA_OPEN_SESSION_FAILED", "SEDNA_AUTHENTICATION_FAILED"},
          status : {"Failed", "Closed"}]

SEconnect(c, r) ==
    IF r.code = "SEDNA_SESSION_OPEN"
    THEN [isConnectionOk |-> "Ok", inTransaction |-> "None", autocommit |-> TRUE]
    ELSE [c EXCEPT !.isConnectionOk = r.status, !.inTransaction = "None"]

\* SEclose: on success the status is Closed; on failure the driver decides.
CloseResponses ==
    {[code |-> "SEDNA_SESSION_CLOSED", status |-> "Closed"]}
    \cup [code : {"SEDNA_CLOSE_SESSION_FAILED"}, status : {"Ok", "Failed", "Closed"}]

SEclose(c, r) ==
    [c EXCEPT !.isConnectionOk = r.status,
              !.inTransaction = IF r.status = "Ok" THEN @ ELSE "None"]

\* SEsetConnectionAttr(conn, SEDNA_ATTR_AUTOCOMMIT, value)
AttrResponses == {"SEDNA_SET_ATTRIBUTE_SUCCEEDED", "SEDNA_ERROR"}

SEsetConnectionAttr(c, value, r) ==
    IF r = "SEDNA_SET_ATTRIBUTE_SUCCEEDED" THEN [c EXCEPT !.autocommit = value] ELSE c

\* SEbegin: the driver refuses a begin while a transaction is active (the
\* documentation of Sedna#transaction relies on it) or without a session.
BeginResponses == {"SEDNA_BEGIN_TRANSACTION_SUCCEEDED", "SEDNA_BEGIN_TRANSACTION_FAILED"}

SEbegin(c, r) ==
    IF c.inTransaction = "Active" \/ c.isConnectionOk # "Ok"
    THEN [code |-> "SEDNA_BEGIN_TRANSACTION_FAILED", conn |-> c]
    ELSE [code |-> r,
          conn |-> IF r = "SEDNA_BEGIN_TRANSACTION_SUCCEEDED"
                   THEN [c EXCEPT !.inTransaction = "Active"] ELSE c]

\* SEcommit and SErollback: on success the transaction is over; on failure
\* the driver decides whether it still is active.
CommitResponses ==
    {[code |-> "SEDNA_COMMIT_TRANSACTION_SUCCEEDED", tx |-> "None"]}
    \cup [code : {"SEDNA_COMMIT_TRANSACTION_FAILED"}, tx : {"Active", "None"}]

RollbackResponses ==
    {[code |-> "SEDNA_ROLLBACK_TRANSACTION_SUCCEEDED", tx |-> "None"]}
    \cup [code : {"SEDNA_ROLLBACK_TRANSACTION_FAILED"}, tx : {"Active", "None"}]

SEcommit(c, r) == [c EXCEPT !.inTransaction = r.tx]

SErollback(c, r) == [c EXCEPT !.inTransaction = r.tx]

\* SEconnectionStatus, SEtransactionStatus
SEconnectionStatus(c) == c.isConnectionOk

SEtransactionStatus(c) == c.inTransaction

----------------------------------------------------------------------------
\* Common functions of the extension.

\* sedna_free: called at GC; never raises.
sedna_free(c, r) ==
    IF SEconnectionStatus(c) # "Closed"
    THEN Ret(SEclose(c, r), <<"SEclose">>, NoErr)
    ELSE Ret(c, <<>>, NoErr)

\* sedna_connect as it would be without the explicit status assignment.
sedna_connect_NoForceClosed(c, r) ==
    LET c1 == SEconnect(c, r)
    IN  IF r.code # "SEDNA_SESSION_OPEN"
        THEN Ret(c1, <<"SEconnect">>, sedna_err(r.code))
        ELSE Ret(c1, <<"SEconnect">>, NoErr)

\* sedna_connect, from the return of SEDNA_CONNECT on.
sedna_connect(c, r) ==
    LET c1 == SEconnect(c, r)
    IN  IF r.code # "SEDNA_SESSION_OPEN"
        THEN Ret([c1 EXCEPT !.isConnectionOk = "Closed"], <<"SEconnect">>, sedna_err(r.code))
        ELSE Ret(c1, <<"SEconnect">>, NoErr)

\* sedna_close
sedna_close(c, r) ==
    IF SEconnectionStatus(c) # "Closed"
    THEN Ret(SEclose(c, r), <<"SEclose">>, VERIFY_RES("SEDNA_SESSION_CLOSED", r.code))
    ELSE Ret(c, <<>>, NoErr)

\* sedna_autocommit
sedna_autocommit(c, value, r) ==
    Ret(SEsetConnectionAttr(c, value, r), <<"SEsetConnectionAttr">>,
        VERIFY_RES("SEDNA_SET_ATTRIBUTE_SUCCEEDED", r))

\* SWITCH_SEDNA_AUTOCOMMIT(conn, val): val is a Ruby VALUE tested as a C
\* integer, so only Qfalse (0) disables; Qtrue and Qnil enable.
SWITCH_SEDNA_AUTOCOMMIT(c, val, r) ==
    IF val # "Qfalse" THEN sedna_autocommit(c, TRUE, r) ELSE sedna_autocommit(c, FALSE, r)

\* sedna_begin as it would be if the result of SEbegin were not verified.
sedna_begin_Unverified(c, ra, rb) ==
    LET a == sedna_autocommit(c, FALSE, ra)
        b == SEbegin(a.conn, rb)
    IN  IF a.err # NoErr THEN a ELSE Ret(b.conn, a.calls \o <<"SEbegin">>, NoErr)

\* sedna_begin as it would be if it began before it disabled autocommit.
sedna_begin_BeginFirst(c, ra, rb) ==
    LET b == SEbegin(c, rb)
        a == sedna_autocommit(b.conn, FALSE, ra)
    IN  IF b.code # "SEDNA_BEGIN_TRANSACTION_SUCCEEDED"
        THEN Ret(b.conn, <<"SEbegin">>, sedna_err(b.code))
        ELSE Ret(a.conn, <<"SEbegin">> \o a.calls, a.err)

\* sedna_begin
sedna_begin(c, ra, rb) ==
    LET a == sedna_autocommit(c, FALSE, ra)
        b == SEbegin(a.conn, rb)
    IN  IF a.err # NoErr
        THEN a
        ELSE Ret(b.conn, a.calls \o <<"SEbegin">>,
                 VERIFY_RES("SEDNA_BEGIN_TRANSACTION_SUCCEEDED", b.code))

\* sedna_tr_commit as it would be if it were as lenient as sedna_tr_rollback.
sedna_tr_commit_Silent(c, rc) ==
    IF SEtransactionStatus(c) = "Active"
    THEN Ret(SEcommit(c, rc), <<"SEcommit">>,
             VERIFY_RES("SEDNA_COMMIT_TRANSACTION_SUCCEEDED", rc.code))
    ELSE Ret(c, <<>>, NoErr)

\* sedna_tr_commit
sedna_tr_commit(c, rc) ==
    IF SEtransactionStatus(c) = "Active"
    THEN Ret(SEcommit(c, rc), <<"SEcommit">>,
             VERIFY_RES("SEDNA_COMMIT_TRANSACTION_SUCCEEDED", rc.code))
    ELSE Ret(c, <<>>, Raise("Transaction", "No transaction in progress, cannot commit."))

\* sedna_commit as it would be without the autocommit switch.
sedna_commit_NoRestore(c, iv, rc, ra) == sedna_tr_commit(c, rc)

\* sedna_commit: sedna_tr_commit runs under rb_protect; the autocommit switch
\* that follows does not, so an exception it raises replaces the pending one.
sedna_commit(c, iv, rc, ra) ==
    LET p == sedna_tr_commit(c, rc)
        s == SWITCH_SEDNA_AUTOCOMMIT(p.conn, iv, ra)
    IN  Ret(s.conn, p.calls \o s.calls, IF s.err # NoErr THEN s.err ELSE p.err)

\* sedna_tr_rollback
sedna_tr_rollback(c, rr) ==
    IF SEtransactionStatus(c) = "Active"
    THEN Ret(SErollback(c, rr), <<"SErollback">>,
             VERIFY_RES("SEDNA_ROLLBACK_TRANSACTION_SUCCEEDED", rr.code))
    ELSE Ret(c, <<>>, NoErr)

\* sedna_rollback
sedna_rollback(c, iv, rr, ra) ==
    LET p == sedna_tr_rollback(c, rr)
        s == SWITCH_SEDNA_AUTOCOMMIT(p.conn, iv, ra)
    IN  Ret(s.conn, p.calls \o s.calls, IF s.err # NoErr THEN s.err ELSE p.err)


----------------------------------------------------------------------------
\* Queries and documents.

\* Bound on the records of a result set and on the chunks of a document.
MaxRecords == 2

MaxChunks == 2

\* SEexecute: the result code, and on failure what the driver leaves of the
\* session and of the transaction.
ExecuteResponses ==
    [code : {"SEDNA_QUERY_SUCCEEDED", "SEDNA_UPDATE_SUCCEEDED", "SEDNA_BULK_LOAD_SUCCEEDED"},
     status : {"Ok"}, tx : {"kept"}]
    \cup [code : {"SEDNA_QUERY_FAILED", "SEDNA_ERROR"}, status : {"Ok", "Failed"},
          tx : {"kept", "None"}]

SEexecute(c, r) ==
    [c EXCEPT !.isConnectionOk = IF r.status = "Ok" THEN @ ELSE r.status,
              !.inTransaction = IF r.tx = "kept" THEN @ ELSE r.tx]

\* What SEgetData answers first for a record: its data (and then 0), or one
\* of the driver's two negative codes.
GetDataResponses == {"data", "SEDNA_ERROR", "SEDNA_GET_DATA_FAILED"}

\* What the driver answers while a result set is drained: for each record
\* whether its data can be read, and how the set ends.
ResultScripts ==
    [records : UNION {[1..n -> GetDataResponses] : n \in 0..MaxRecords},
     end : {"SEDNA_RESULT_END", "SEDNA_ERROR"}]

\* sedna_read: SEgetData until it returns no bytes.  SEDNA_ERROR raises; any
\* other value that is not positive, a failure code included, ends the loop
\* and the string is returned as far as it was read.
sedna_read(how) ==
    CASE how = "SEDNA_ERROR" ->
           [calls |-> <<"SEgetData">>, err |-> sedna_err("SEDNA_ERROR")]
      [] how = "SEDNA_GET_DATA_FAILED" ->
           [calls |-> <<"SEgetData">>, err |-> NoErr]
      [] OTHER ->
           [calls |-> <<"SEgetData", "SEgetData">>, err |-> NoErr]

\* sedna_get_results: SEnext until SEDNA_RESULT_END; an error raises.
RECURSIVE sedna_get_results(_, _)
sedna_get_results(script, i) ==
    IF i > Len(script.records)
    THEN [calls |-> <<"SEnext">>,
          err |-> IF script.end = "SEDNA_ERROR" THEN sedna_err("SEDNA_ERROR") ELSE NoErr,
          count |-> 0]
    ELSE LET rd == sedna_read(script.records[i])
             rest == sedna_get_results(script, i + 1)
         IN  IF rd.err # NoErr
             THEN [calls |-> <<"SEnext">> \o rd.calls, err |-> rd.err, count |-> 0]
             ELSE [calls |-> <<"SEnext">> \o rd.calls \o rest.calls, err |-> rest.err,
                   count |-> IF rest.err = NoErr THEN rest.count + 1 ELSE 0]

\* The connection test as it would be if it tested for the Closed status only.
cSedna_execute_check_ClosedOnly(c) ==
    IF SEconnectionStatus(c) = "Closed"
    THEN Raise("Connection", "Connection is closed.")
    ELSE NoErr

\* cSedna_execute, the connection test before SEDNA_EXECUTE.
cSedna_execute_check(c) ==
    IF SEconnectionStatus(c) # "Ok"
    THEN Raise("Connection", "Connection is closed.")
    ELSE NoErr

\* cSedna_execute, from the return of SEDNA_EXECUTE on.
cSedna_execute_result(c, r, script) ==
    LET c1 == SEexecute(c, r)
        g == sedna_get_results(script, 1)
    IN  CASE r.code = "SEDNA_QUERY_SUCCEEDED" ->
               [conn |-> c1, calls |-> <<"SEexecute">> \o g.calls, err |-> g.err,
                value |-> IF g.err = NoErr THEN "array" ELSE "none"]
          [] r.code \in {"SEDNA_UPDATE_SUCCEEDED", "SEDNA_BULK_LOAD_SUCCEEDED"} ->
               [conn |-> c1, calls |-> <<"SEexecute">>, err |-> NoErr, value |-> "nil"]
          [] OTHER ->
               [conn |-> c1, calls |-> <<"SEexecute">>, err |-> sedna_err(r.code),
                value |-> "none"]

\* The sources cSedna_load_document accepts: an IO that yields n chunks, or a
\* String that is empty (0) or not; the driver accepts the first `accepted`
\* chunks and answers `end` to SEendLoadData.
LoadInputs ==
    [kind : {"T_FILE", "T_STRING"}, chunks : 0..MaxChunks, accepted : 0..MaxChunks,
     end : {"SEDNA_BULK_LOAD_SUCCEEDED", "SEDNA_BULK_LOAD_FAILED"}]

LoadCalls(n) == [i \in 1..n |-> "SEloadData"]

\* cSedna_load_document as it would be without the two tests for an empty
\* document.
cSedna_load_document_NoEmptyTest(c, in) ==
    LET n == IF in.kind = "T_STRING" /\ in.chunks > 1 THEN 1 ELSE in.chunks
    IN  IF SEconnectionStatus(c) # "Ok"
        THEN Ret(c, <<>>, Raise("Connection", "Connection is closed."))
        ELSE IF in.accepted < n
        THEN Ret(c, LoadCalls(in.accepted + 1), sedna_err("SEDNA_ERROR"))
        ELSE Ret(c, LoadCalls(n) \o <<"SEendLoadData">>,
                 VERIFY_RES("SEDNA_BULK_LOAD_SUCCEEDED", in.end))

\* cSedna_load_document
cSedna_load_document(c, in) ==
    LET n == IF in.kind = "T_STRING" /\ in.chunks > 1 THEN 1 ELSE in.chunks
        finish == Ret(c, LoadCalls(n) \o <<"SEendLoadData">>,
                      VERIFY_RES("SEDNA_BULK_LOAD_SUCCEEDED", in.end))
    IN  IF SEconnectionStatus(c) # "Ok"
        THEN Ret(c, <<>>, Raise("Connection", "Connection is closed."))
        ELSE IF n = 0
        THEN Ret(c, <<>>, Raise("Generic", "Document is empty."))
        ELSE IF in.accepted < n
        THEN Ret(c, LoadCalls(in.accepted + 1), sedna_err("SEDNA_ERROR"))
        ELSE finish


\* cSedna_transaction after the block has unwound with sig: roll back, then
\* rb_jump_tag(status) -- which is reached only if sedna_rollback returns.
cSedna_transaction_unwind(c, iv, sig, rr, ra) ==
    LET r == sedna_rollback(c, iv, rr, ra)
    IN  Ret(r.conn, r.calls, IF r.err # NoErr THEN r.err ELSE sig)

----------------------------------------------------------------------------
\* The state machine.

Idle == [t \in Threads |-> "idle"]

NoFrames == [t \in Threads |-> <<>>]

\* The number of blocks that are open.
Depth == Len(stack[1]) + Len(stack[2])

\* What a step leaves for observation: the operation, the thread (of a
\* transaction call; 0 otherwise), the driver calls of the step, the
\* exception it raised, the signal the block unwound with, the driver's
\* autocommit mode before the transaction began, and the value returned.
Obs(op, t, calls, err, sig, preAC, value) ==
    [op |-> op, t |-> IF op \in {"begin", "transaction:begin"} THEN t ELSE 0,
     calls |-> calls, err |-> err, sig |-> sig, preAC |-> preAC, value |-> value]

Count(calls, name) == Cardinality({i \in 1..Len(calls) : calls[i] = name})

\* The history counter after a step that made `calls`.
Closes(calls) ==
    IF Count(calls, "SEclose") + closes > MaxCloses THEN MaxCloses
    ELSE Count(calls, "SEclose") + closes

\* A thread can start a method of the object: it is in none, the object is
\* initialized, and in the blocking build no thread is inside a driver call.
Runnable(t) ==
    /\ pc[t] = "idle"
    /\ build = "blocking" => \A u \in Threads : pc[u] = "idle"

\* cSedna_s_new: the object as allocated, before initialize.
cSedna_s_new ==
    /\ phase = "allocated"
    /\ conn = SEDNA_CONNECTION_INITIALIZER
    /\ ivAutocommit = "Qnil"
    /\ mutex = 0
    /\ pc = Idle
    /\ stack = NoFrames
    /\ closes = 0
    /\ last = [op |-> "new", t |-> 0, calls |-> <<>>, err |-> NoErr, sig |-> NoErr,
               preAC |-> TRUE, value |-> "none"]

\* The options hash of new: a key is absent ("Qnil") or has a value.
Options == [host : {"Qnil", "h"}, database : {"Qnil", "d"},
            username : {"Qnil", "u"}, password : {"Qnil", "p"}]

\* cSedna_initialize: the connection details, a default for each absent key.
Details(options) ==
    [host |-> IF options.host = "Qnil" THEN "DEFAULT_HOST" ELSE options.host,
     database |-> IF options.database = "Qnil" THEN "DEFAULT_DB" ELSE options.database,
     username |-> IF options.username = "Qnil" THEN "DEFAULT_USER" ELSE options.username,
     password |-> IF options.password = "Qnil" THEN "DEFAULT_PW" ELSE options.password]

\* new is called with an empty hash; @host, @database, @username and
\* @password are unset and SEconnect has not been called.
NoDetails ==
    [given |-> [host |-> "Qnil", database |-> "Qnil", username |-> "Qnil", password |-> "Qnil"],
     iv |-> "Qnil", sent |-> "none"]

\* No second object is in use, no block of Sedna.connect is open.
Alone == peer = [mutex |-> 0, pc |-> Idle] /\ yielded = 0

\* No function is examined on its own.
NoOutcome == [done |-> FALSE, how |-> "none", value |-> <<>>]

Init ==
    /\ build = "non_blocking"
    /\ cSedna_s_new
    /\ sca = NoDetails
    /\ Alone
    /\ arg = <<>>
    /\ out = NoOutcome

\* SEDNA_CONNECT / SEDNA_EXECUTE as they would be if the non-blocking build
\* entered the blocking region without rb_mutex_synchronize.
Locked_Never(t) == 0

\* SEDNA_CONNECT / SEDNA_EXECUTE as they would be if the mutex were taken in
\* the name of another thread.
Locked_Other(t) == IF build = "non_blocking" THEN 3 - t ELSE 0

\* SEDNA_CONNECT / SEDNA_EXECUTE: in the non-blocking build the driver call
\* runs under @mutex, in a blocking region.
Locked(t) == IF build = "non_blocking" THEN t ELSE 0

\* rb_mutex_synchronize as it would be if it unlocked only after a call that
\* has succeeded.
Unlock_OnSuccess(res) ==
    IF res \in {"SEDNA_SESSION_OPEN", "SEDNA_QUERY_SUCCEEDED", "SEDNA_UPDATE_SUCCEEDED",
                "SEDNA_BULK_LOAD_SUCCEEDED"}
    THEN 0 ELSE mutex

\* SEDNA_CONNECT / SEDNA_EXECUTE, the return of rb_mutex_synchronize: the
\* mutex is unlocked whatever the driver call has returned.
Unlock(res) == 0

\* cSedna_initialize up to SEDNA_CONNECT.  The object is not yet visible to
\* any other thread.
Initialize(t) ==
    /\ phase = "allocated"
    /\ \A u \in Threads : pc[u] = "idle"
    /\ pc' = [pc EXCEPT ![t] = "init"]
    /\ mutex' = Locked(t)
    /\ last' = Obs("initialize:dispatch", t, <<>>, NoErr, NoErr, TRUE, "none")
    /\ sca' = [sca EXCEPT !.iv = Details(sca.given),
                                  !.sent = Details(sca.given)]
    /\ UNCHANGED <<build, peer, yielded, arg, out, phase, conn, ivAutocommit, stack, closes>>

\* cSedna_initialize from the return of SEconnect on.
InitializeReturn(t, r) ==
    /\ pc[t] = "init"
    /\ LET res == sedna_connect(conn, r)
       IN  /\ conn' = res.conn
           /\ phase' = IF res.err = NoErr THEN "live" ELSE "failed"
           /\ ivAutocommit' = IF res.err = NoErr THEN "Qtrue" ELSE ivAutocommit
           /\ closes' = IF res.err = NoErr THEN 0 ELSE closes
           /\ last' = Obs("initialize", t, res.calls, res.err, NoErr, TRUE,
                          IF res.err = NoErr THEN "self" ELSE "none")
    /\ pc' = [pc EXCEPT ![t] = "idle"]
    /\ mutex' = Unlock(r.code)
    /\ UNCHANGED <<outside, stack>>

\* cSedna_close
Close(t, r) ==
    /\ phase \in {"live", "failed"}
    /\ Runnable(t)
    /\ LET res == sedna_close(conn, r)
       IN  /\ conn' = res.conn
           /\ closes' = Closes(res.calls)
           /\ last' = Obs("close", t, res.calls, res.err, NoErr, TRUE,
                          IF res.err = NoErr THEN "nil" ELSE "none")
    /\ UNCHANGED <<outside, phase, ivAutocommit, mutex, pc, stack>>

\* cSedna_connected
Connected(t) ==
    /\ phase \in {"live", "failed"}
    /\ Runnable(t)
    /\ last' = Obs("connected?", t, <<>>, NoErr, NoErr, TRUE,
                   IF SEconnectionStatus(conn) = "Ok" THEN "true" ELSE "false")
    /\ UNCHANGED <<outside, phase, conn, ivAutocommit, mutex, pc, stack, closes>>

\* cSedna_reset as it would be if it reconnected with the default details.
StoredDetails_Defaults(s) == Details(NoDetails.given)

\* rb_iv_get(self, IV_HOST), IV_DB, IV_USER, IV_PW in cSedna_reset.
StoredDetails(s) == s.iv

\* cSedna_reset up to SEDNA_CONNECT: close, then wait for @mutex if another
\* thread holds it.
Reset(t, r) ==
    /\ phase = "live"
    /\ Runnable(t)
    /\ LET res == sedna_close(conn, r)
       IN  /\ conn' = res.conn
           /\ closes' = Closes(res.calls)
           /\ IF res.err # NoErr
              THEN /\ last' = Obs("reset", t, res.calls, res.err, NoErr, TRUE, "none")
                   /\ UNCHANGED <<pc, mutex, sca>>
              ELSE /\ last' = Obs("reset:dispatch", t, res.calls, NoErr, NoErr, TRUE, "none")
                   /\ sca' = [sca EXCEPT !.sent = StoredDetails(sca)]
                   /\ IF mutex = 0
                      THEN pc' = [pc EXCEPT ![t] = "reset"] /\ mutex' = Locked(t)
                      ELSE pc' = [pc EXCEPT ![t] = "reset_wait"] /\ UNCHANGED mutex
    /\ UNCHANGED <<build, peer, yielded, arg, out, phase, ivAutocommit, stack>>

\* rb_mutex_synchronize in cSedna_reset, once the mutex is free.
ResetLock(t) ==
    /\ pc[t] = "reset_wait"
    /\ mutex = 0
    /\ mutex' = t
    /\ pc' = [pc EXCEPT ![t] = "reset"]
    /\ last' = Obs("reset:lock", t, <<>>, NoErr, NoErr, TRUE, "none")
    /\ UNCHANGED <<outside, phase, conn, ivAutocommit, stack, closes>>

\* cSedna_reset from the return of SEconnect on.
ResetReturn(t, r) ==
    /\ pc[t] = "reset"
    /\ LET res == sedna_connect(conn, r)
       IN  /\ conn' = res.conn
           /\ closes' = IF res.err = NoErr THEN 0 ELSE closes
           /\ last' = Obs("reset", t, res.calls, res.err, NoErr, TRUE,
                          IF res.err = NoErr THEN "nil" ELSE "none")
    /\ pc' = [pc EXCEPT ![t] = "idle"]
    /\ mutex' = Unlock(r.code)
    /\ UNCHANGED <<outside, phase, ivAutocommit, stack>>


\* cSedna_execute up to SEDNA_EXECUTE: the connection test, then wait for
\* @mutex if another thread holds it.
Execute(t) ==
    /\ phase = "live"
    /\ Runnable(t)
    /\ LET e == cSedna_execute_check(conn)
       IN  IF e # NoErr
           THEN /\ last' = Obs("execute", t, <<>>, e, NoErr, TRUE, "none")
                /\ UNCHANGED <<pc, mutex>>
           ELSE /\ last' = Obs("execute:dispatch", t, <<>>, NoErr, NoErr, TRUE, "none")
                /\ IF mutex = 0
                   THEN pc' = [pc EXCEPT ![t] = "exec"] /\ mutex' = Locked(t)
                   ELSE pc' = [pc EXCEPT ![t] = "exec_wait"] /\ UNCHANGED mutex
    /\ UNCHANGED <<outside, phase, conn, ivAutocommit, stack, closes>>

\* rb_mutex_synchronize in cSedna_execute, once the mutex is free.
ExecuteLock(t) ==
    /\ pc[t] = "exec_wait"
    /\ mutex = 0
    /\ mutex' = t
    /\ pc' = [pc EXCEPT ![t] = "exec"]
    /\ last' = Obs("execute:lock", t, <<>>, NoErr, NoErr, TRUE, "none")
    /\ UNCHANGED <<outside, phase, conn, ivAutocommit, stack, closes>>

\* cSedna_execute from the return of SEexecute on.
ExecuteReturn(t, r, script) ==
    /\ pc[t] = "exec"
    /\ LET res == cSedna_execute_result(conn, r, script)
       IN  /\ conn' = res.conn
           /\ last' = Obs("execute", t, res.calls, res.err, NoErr, TRUE, res.value)
    /\ pc' = [pc EXCEPT ![t] = "idle"]
    /\ mutex' = Unlock(r.code)
    /\ UNCHANGED <<outside, phase, ivAutocommit, stack, closes>>

\* cSedna_load_document
LoadDocument(t, in) ==
    /\ phase = "live"
    /\ Runnable(t)
    /\ LET res == cSedna_load_document(conn, in)
       IN  /\ conn' = res.conn
           /\ last' = Obs("load_document", t, res.calls, res.err, NoErr, TRUE,
                          IF res.err = NoErr THEN "nil" ELSE "none")
    /\ UNCHANGED <<outside, phase, ivAutocommit, mutex, pc, stack, closes>>

\* cSedna_autocommit_set
AutocommitSet(t, val, r) ==
    /\ phase = "live"
    /\ Runnable(t)
    /\ LET res == SWITCH_SEDNA_AUTOCOMMIT(conn, val, r)
       IN  /\ conn' = res.conn
           /\ ivAutocommit' = IF res.err = NoErr THEN val ELSE ivAutocommit
           /\ last' = Obs("autocommit=", t, res.calls, res.err, NoErr, TRUE,
                          IF res.err = NoErr THEN "nil" ELSE "none")
    /\ UNCHANGED <<outside, phase, mutex, pc, stack, closes>>

\* cSedna_transaction up to rb_yield: begin, and with a block enter it.
Transaction(t, block, ra, rb) ==
    /\ phase = "live"
    /\ Runnable(t)
    /\ block => Depth < MaxDepth
    /\ LET res == sedna_begin(conn, ra, rb)
       IN  /\ conn' = res.conn
           /\ IF res.err = NoErr /\ block
              THEN /\ stack' = [stack EXCEPT ![t] = Append(@, [preAC |-> conn.autocommit])]
                   /\ last' = Obs("transaction:begin", t, res.calls, NoErr, NoErr,
                                  conn.autocommit, "yield")
              ELSE /\ stack' = stack
                   /\ last' = Obs(IF block THEN "transaction:begin" ELSE "begin", t,
                                  res.calls, res.err, NoErr, conn.autocommit,
                                  IF res.err = NoErr THEN "nil" ELSE "none")
    /\ UNCHANGED <<outside, phase, ivAutocommit, mutex, pc, closes>>

Top(t) == stack[t][Len(stack[t])]

Pop(t) == [stack EXCEPT ![t] = SubSeq(@, 1, Len(@) - 1)]

\* cSedna_transaction after the block has completed: commit.
BlockReturn(t, rc, ra) ==
    /\ phase = "live"
    /\ Runnable(t)
    /\ stack[t] # <<>>
    /\ LET res == sedna_commit(conn, ivAutocommit, rc, ra)
       IN  /\ conn' = res.conn
           /\ last' = Obs("transaction:return", t, res.calls, res.err, NoErr, Top(t).preAC,
                          IF res.err = NoErr THEN "nil" ELSE "none")
    /\ stack' = Pop(t)
    /\ UNCHANGED <<outside, phase, ivAutocommit, mutex, pc, closes>>

\* cSedna_transaction after the block has unwound with sig: roll back and
\* jump on.
BlockUnwind(t, sig, rr, ra) ==
    /\ phase = "live"
    /\ Runnable(t)
    /\ stack[t] # <<>>
    /\ LET res == cSedna_transaction_unwind(conn, ivAutocommit, sig, rr, ra)
       IN  /\ conn' = res.conn
           /\ last' = Obs("transaction:unwind", t, res.calls, res.err, sig, Top(t).preAC, "none")
    /\ stack' = Pop(t)
    /\ UNCHANGED <<outside, phase, ivAutocommit, mutex, pc, closes>>

\* cSedna_commit
Commit(t, rc, ra) ==
    /\ phase = "live"
    /\ Runnable(t)
    /\ LET res == sedna_commit(conn, ivAutocommit, rc, ra)
       IN  /\ conn' = res.conn
           /\ last' = Obs("commit", t, res.calls, res.err, NoErr, TRUE,
                          IF res.err = NoErr THEN "nil" ELSE "none")
    /\ UNCHANGED <<outside, phase, ivAutocommit, mutex, pc, stack, closes>>

\* cSedna_rollback
Rollback(t, rr, ra) ==
    /\ phase = "live"
    /\ Runnable(t)
    /\ LET res == sedna_rollback(conn, ivAutocommit, rr, ra)
       IN  /\ conn' = res.conn
           /\ last' = Obs("rollback", t, res.calls, res.err, NoErr, TRUE,
                          IF res.err = NoErr THEN "nil" ELSE "none")
    /\ UNCHANGED <<outside, phase, ivAutocommit, mutex, pc, stack, closes>>

\* Teardown at GC (sedna_free): no thread is inside a method or a block of
\* the object any more.
Teardown(r) ==
    /\ phase \in {"allocated", "live", "failed"}
    /\ pc = Idle
    /\ stack = NoFrames
    /\ LET res == sedna_free(conn, r)
       IN  /\ conn' = res.conn
           /\ closes' = Closes(res.calls)
           /\ last' = Obs("free", 0, res.calls, res.err, NoErr, TRUE, "none")
    /\ phase' = "freed"
    /\ UNCHANGED <<outside, ivAutocommit, mutex, pc, stack>>

\* A response the code does not read in the current state is fixed to the
\* successful one, so that one step is not generated once per unread response.
CloseRead(r) == SEconnectionStatus(conn) # "Closed" \/ r.code = "SEDNA_SESSION_CLOSED"

EndRead(r) ==
    \/ SEtransactionStatus(conn) = "Active"
    \/ r.code \in {"SEDNA_COMMIT_TRANSACTION_SUCCEEDED", "SEDNA_ROLLBACK_TRANSACTION_SUCCEEDED"}

BeginRead(ra, rb) ==
    \/ /\ ra = "SEDNA_SET_ATTRIBUTE_SUCCEEDED"
       /\ SEtransactionStatus(conn) # "Active"
       /\ SEconnectionStatus(conn) = "Ok"
    \/ rb = "SEDNA_BEGIN_TRANSACTION_SUCCEEDED"

ScriptRead(r, script) ==
    \/ r.code = "SEDNA_QUERY_SUCCEEDED"
    \/ script = [records |-> <<>>, end |-> "SEDNA_RESULT_END"]

LoadRead(in) ==
    /\ in.accepted <= in.chunks
    /\ in.kind = "T_STRING" => in.chunks <= 1
    /\ in.accepted < in.chunks \/ SEconnectionStatus(conn) # "Ok"
          => in.end = "SEDNA_BULK_LOAD_SUCCEEDED"
    /\ SEconnectionStatus(conn) # "Ok" => in.accepted = in.chunks

\* Construction.
Connecting ==
    \/ \E t \in Threads : Initialize(t)
    \/ \E t \in Threads, r \in ConnectResponses : InitializeReturn(t, r)

\* close
Closing ==
    \E t \in Threads, r \in CloseResponses : CloseRead(r) /\ Close(t, r)

\* reset
Resetting ==
    \/ \E t \in Threads, r \in CloseResponses : CloseRead(r) /\ Reset(t, r)
    \/ \E t \in Threads : ResetLock(t)
    \/ \E t \in Threads, r \in ConnectResponses : ResetReturn(t, r)

\* Queries, document loads, status queries and teardown.
Queries ==
    \/ \E t \in Threads : Connected(t)
    \/ \E t \in Threads : Execute(t)
    \/ \E t \in Threads : ExecuteLock(t)
    \/ \E t \in Threads, r \in ExecuteResponses, script \in ResultScripts :
          ScriptRead(r, script) /\ ExecuteReturn(t, r, script)
    \/ \E t \in Threads, in \in LoadInputs : LoadRead(in) /\ LoadDocument(t, in)
    \/ \E r \in CloseResponses : CloseRead(r) /\ Teardown(r)

\* Transaction control.
Transactions ==
    \/ \E t \in Threads, val \in {"Qtrue", "Qfalse"}, r \in AttrResponses :
          AutocommitSet(t, val, r)
    \/ \E t \in Threads, block \in BOOLEAN, ra \in AttrResponses, rb \in BeginResponses :
          BeginRead(ra, rb) /\ Transaction(t, block, ra, rb)
    \/ \E t \in Threads, rc \in CommitResponses, ra \in AttrResponses :
          EndRead(rc) /\ BlockReturn(t, rc, ra)
    \/ \E t \in Threads, sig \in Signals, rr \in RollbackResponses, ra \in AttrResponses :
          EndRead(rr) /\ BlockUnwind(t, sig, rr, ra)
    \/ \E t \in Threads, rc \in CommitResponses, ra \in AttrResponses :
          EndRead(rc) /\ Commit(t, rc, ra)
    \/ \E t \in Threads, rr \in RollbackResponses, ra \in AttrResponses :
          EndRead(rr) /\ Rollback(t, rr, ra)

Next == Connecting \/ Closing \/ Resetting \/ Queries \/ Transactions

\* The whole object.
Spec == Init /\ [][Next]_vars

\* The connection life cycle with queries and loads; no transaction is begun.
SpecLife == Init /\ [][Connecting \/ Closing \/ Resetting \/ Queries]_vars

\* Transaction control on a connection that is opened once and may be closed.
SpecTx == Init /\ [][Connecting \/ Closing \/ Transactions]_vars


----------------------------------------------------------------------------
\* Sedna.connect with a block.  `yielded` is the thread whose call of
\* Sedna.connect is inside rb_protect(rb_yield, obj), 0 when there is none.

\* cSedna_s_connect from the return of SEconnect on, when a block is given
\* and initialize has not raised: the new object is yielded to the block.
\* (When initialize raises, the exception leaves Sedna.connect as it leaves
\* new: InitializeReturn.)
SConnectYield(t, r) ==
    /\ pc[t] = "init"
    /\ yielded = 0
    /\ LET res == sedna_connect(conn, r)
       IN  /\ res.err = NoErr
           /\ conn' = res.conn
           /\ last' = Obs("connect:yield", t, res.calls, NoErr, NoErr, TRUE, "none")
    /\ phase' = "live"
    /\ ivAutocommit' = "Qtrue"
    /\ closes' = 0
    /\ pc' = [pc EXCEPT ![t] = "idle"]
    /\ mutex' = 0
    /\ yielded' = t
    /\ UNCHANGED <<build, peer, sca, arg, out, stack>>

\* What the block ends with: nothing (it has returned) or a signal.
BlockEnds == {NoErr} \cup Signals

\* cSedna_s_connect after rb_protect has returned: cSedna_close(obj), then
\* rb_jump_tag(status) if the block has unwound, else return Qnil.  An
\* exception of cSedna_close leaves the function before rb_jump_tag.
SConnectEnsure(t, sig, r) ==
    /\ yielded = t
    /\ Runnable(t)
    /\ stack[t] = <<>>
    /\ LET res == sedna_close(conn, r)
           err == IF res.err # NoErr THEN res.err ELSE sig
       IN  /\ conn' = res.conn
           /\ closes' = Closes(res.calls)
           /\ last' = Obs("connect", t, res.calls, err, sig, TRUE,
                          IF err = NoErr THEN "nil" ELSE "none")
    /\ yielded' = 0
    /\ UNCHANGED <<build, peer, sca, arg, out, phase, ivAutocommit, mutex, pc, stack>>

\* Sedna.connect { |sedna| ... }
SConnecting ==
    \/ \E t \in Threads, r \in ConnectResponses : SConnectYield(t, r)
    \/ \E t \in Threads, sig \in BlockEnds, r \in CloseResponses :
          CloseRead(r) /\ SConnectEnsure(t, sig, r)

\* What the block and the other threads do with the object meanwhile, and
\* the callers of new or of Sedna.connect without a block at any time.
Using ==
    \/ \E t \in Threads : Connected(t)
    \/ \E t \in Threads : Execute(t)
    \/ \E t \in Threads : ExecuteLock(t)
    \/ \E t \in Threads, r \in ExecuteResponses, script \in ResultScripts :
          ScriptRead(r, script) /\ ExecuteReturn(t, r, script)

NextConnect == Connecting \/ SConnecting \/ Closing \/ Resetting \/ Using

\* Sedna.connect with or without a block, close, reset and queries.
SpecConnect == Init /\ [][NextConnect]_vars

\* Transaction control on a connection that may be reset.
SpecAuto == Init /\ [][Connecting \/ Resetting \/ Transactions]_vars

\* new with any options hash, in either build.
InitReset ==
    /\ build \in {"non_blocking", "blocking"}
    /\ cSedna_s_new
    /\ sca \in [given : Options, iv : {"Qnil"}, sent : {"none"}]
    /\ Alone
    /\ arg = <<>>
    /\ out = NoOutcome

\* The connection opened with any details, then closed, reset and queried.
SpecReset == InitReset /\ [][Connecting \/ Closing \/ Resetting \/ Using]_vars

\* Every driver call returns, and a thread that can take @mutex again and
\* again does take it.
FairGuard ==
    \A t \in Threads :
        /\ WF_vars(\E r \in ConnectResponses : InitializeReturn(t, r))
        /\ WF_vars(\E r \in ConnectResponses : ResetReturn(t, r))
        /\ WF_vars(\E r \in ExecuteResponses, script \in ResultScripts :
                      ScriptRead(r, script) /\ ExecuteReturn(t, r, script))
        /\ SF_vars(ExecuteLock(t))
        /\ SF_vars(ResetLock(t))

\* Connect, close, reset and execute by two threads, with driver calls that
\* return.
SpecGuard == Init /\ [][Connecting \/ Closing \/ Resetting \/ Using]_vars /\ FairGuard

----------------------------------------------------------------------------
\* One caller: a single thread connects, resets and executes, in either
\* build.  The steps that wait for @mutex are left out: a thread that had to
\* wait would wait for ever.

Caller == 1

InitOne ==
    /\ build \in {"non_blocking", "blocking"}
    /\ cSedna_s_new
    /\ sca = NoDetails
    /\ Alone
    /\ arg = <<>>
    /\ out = NoOutcome

NextOne ==
    \/ Initialize(Caller)
    \/ \E r \in ConnectResponses : InitializeReturn(Caller, r)
    \/ \E r \in CloseResponses : CloseRead(r) /\ Reset(Caller, r)
    \/ \E r \in ConnectResponses : ResetReturn(Caller, r)
    \/ Execute(Caller)
    \/ \E r \in ExecuteResponses, script \in ResultScripts :
          ScriptRead(r, script) /\ ExecuteReturn(Caller, r, script)

SpecOne == InitOne /\ [][NextOne]_vars

\* The synchronous fallback, SEDNA_CONNECT(self, c) = sedna_blocking_connect(c)
\* and SEDNA_EXECUTE(self, q) = sedna_blocking_execute(q), as steps of the
\* caller over the state of the object without @mutex: the call is entered,
\* the call returns.
SyncEnter(t, at, op) ==
    /\ pc[t] = "idle"
    /\ pc' = [pc EXCEPT ![t] = at]
    /\ last' = Obs(op, t, <<>>, NoErr, NoErr, TRUE, "none")

\* cSedna_initialize with sedna_blocking_connect.
SyncInitialize(t) ==
    /\ phase = "allocated"
    /\ SyncEnter(t, "init", "initialize:dispatch")
    /\ sca' = [sca EXCEPT !.iv = Details(sca.given), !.sent = Details(sca.given)]
    /\ UNCHANGED <<phase, conn, ivAutocommit, stack, closes>>

SyncInitializeReturn(t, r) ==
    /\ pc[t] = "init"
    /\ pc' = [pc EXCEPT ![t] = "idle"]
    /\ LET res == sedna_connect(conn, r)
       IN  /\ conn' = res.conn
           /\ phase' = IF res.err = NoErr THEN "live" ELSE "failed"
           /\ ivAutocommit' = IF res.err = NoErr THEN "Qtrue" ELSE ivAutocommit
           /\ closes' = IF res.err = NoErr THEN 0 ELSE closes
           /\ last' = Obs("initialize", t, res.calls, res.err, NoErr, TRUE,
                          IF res.err = NoErr THEN "self" ELSE "none")
    /\ UNCHANGED <<stack, sca>>

\* cSedna_reset with sedna_blocking_connect.
SyncReset(t, r) ==
    /\ phase = "live"
    /\ pc[t] = "idle"
    /\ LET res == sedna_close(conn, r)
       IN  /\ conn' = res.conn
           /\ closes' = Closes(res.calls)
           /\ IF res.err # NoErr
              THEN /\ last' = Obs("reset", t, res.calls, res.err, NoErr, TRUE, "none")
                   /\ UNCHANGED <<pc, sca>>
              ELSE /\ last' = Obs("reset:dispatch", t, res.calls, NoErr, NoErr, TRUE, "none")
                   /\ pc' = [pc EXCEPT ![t] = "reset"]
                   /\ sca' = [sca EXCEPT !.sent = sca.iv]
    /\ UNCHANGED <<phase, ivAutocommit, stack>>

SyncResetReturn(t, r) ==
    /\ pc[t] = "reset"
    /\ pc' = [pc EXCEPT ![t] = "idle"]
    /\ LET res == sedna_connect(conn, r)
       IN  /\ conn' = res.conn
           /\ closes' = IF res.err = NoErr THEN 0 ELSE closes
           /\ last' = Obs("reset", t, res.calls, res.err, NoErr, TRUE,
                          IF res.err = NoErr THEN "nil" ELSE "none")
    /\ UNCHANGED <<phase, ivAutocommit, stack, sca>>

\* cSedna_execute with sedna_blocking_execute.
SyncExecute(t) ==
    /\ phase = "live"
    /\ IF cSedna_execute_check(conn) # NoErr
       THEN /\ pc[t] = "idle"
            /\ last' = Obs("execute", t, <<>>, cSedna_execute_check(conn), NoErr, TRUE, "none")
            /\ UNCHANGED pc
       ELSE SyncEnter(t, "exec", "execute:dispatch")
    /\ UNCHANGED <<phase, conn, ivAutocommit, stack, closes, sca>>

SyncExecuteReturn(t, r, script) ==
    /\ pc[t] = "exec"
    /\ pc' = [pc EXCEPT ![t] = "idle"]
    /\ LET res == cSedna_execute_result(conn, r, script)
       IN  /\ conn' = res.conn
           /\ last' = Obs("execute", t, res.calls, res.err, NoErr, TRUE, res.value)
    /\ UNCHANGED <<phase, ivAutocommit, stack, closes, sca>>

\* A step of the caller with the synchronous fallback.
Synchronous ==
    \/ SyncInitialize(Caller)
    \/ \E r \in ConnectResponses : SyncInitializeReturn(Caller, r)
    \/ \E r \in CloseResponses : SyncReset(Caller, r)
    \/ \E r \in ConnectResponses : SyncResetReturn(Caller, r)
    \/ SyncExecute(Caller)
    \/ \E r \in ExecuteResponses, script \in ResultScripts : SyncExecuteReturn(Caller, r, script)

----------------------------------------------------------------------------
\* A second Sedna object, B, beside the first, A.  B is connected and only
\* executes; of its state the model keeps @mutex and the place of each thread.

\* rb_iv_set(self, IV_MUTEX, rb_mutex_new()) as it would be if the mutex were
\* created once for the class.
IV_MUTEX_OfClass(self) == "A"

\* rb_iv_get(self, IV_MUTEX): the mutex cSedna_initialize has created for
\* this object.
IV_MUTEX(self) == self

\* The thread that holds the mutex B executes under, or 0.
PeerHolder == IF IV_MUTEX("B") = IV_MUTEX("A") THEN mutex ELSE peer.mutex

\* rb_mutex_lock on the mutex of B by thread t, which then is at `at` in B.
PeerAcquire(t, at) ==
    IF IV_MUTEX("B") = IV_MUTEX("A")
    THEN /\ mutex' = Locked(t)
         /\ peer' = [peer EXCEPT !.pc[t] = at]
    ELSE /\ mutex' = mutex
         /\ peer' = [mutex |-> Locked(t), pc |-> [peer.pc EXCEPT ![t] = at]]

\* Thread t is in no method of B, and in the blocking build no thread is
\* inside a driver call made for B.
Beside(t) ==
    /\ peer.pc[t] = "idle"
    /\ build = "blocking" => peer.pc = Idle

\* cSedna_execute of B up to SEDNA_EXECUTE.
PeerExecute(t) ==
    /\ pc[t] = "idle"
    /\ Beside(t)
    /\ build = "blocking" => pc = Idle
    /\ IF PeerHolder = 0
       THEN PeerAcquire(t, "exec")
       ELSE peer' = [peer EXCEPT !.pc[t] = "exec_wait"] /\ mutex' = mutex
    /\ UNCHANGED <<build, phase, conn, ivAutocommit, pc, stack, closes, last, yielded, sca,
                   arg, out>>

\* rb_mutex_synchronize in cSedna_execute of B, once the mutex is free.
PeerExecuteLock(t) ==
    /\ peer.pc[t] = "exec_wait"
    /\ PeerHolder = 0
    /\ PeerAcquire(t, "exec")
    /\ UNCHANGED <<build, phase, conn, ivAutocommit, pc, stack, closes, last, yielded, sca,
                   arg, out>>

\* cSedna_execute of B from the return of SEexecute on.
PeerExecuteReturn(t) ==
    /\ peer.pc[t] = "exec"
    /\ IF IV_MUTEX("B") = IV_MUTEX("A")
       THEN /\ mutex' = 0
            /\ peer' = [peer EXCEPT !.pc[t] = "idle"]
       ELSE /\ mutex' = mutex
            /\ peer' = [mutex |-> 0, pc |-> [peer.pc EXCEPT ![t] = "idle"]]
    /\ UNCHANGED <<build, phase, conn, ivAutocommit, pc, stack, closes, last, yielded, sca,
                   arg, out>>

\* execute of A by a thread that is not inside B.
ExecuteBeside(t) == Beside(t) /\ Execute(t)

ExecuteReturnBeside(t, r, script) == Beside(t) /\ ExecuteReturn(t, r, script)

\* Either build of the extension.
InitPeer ==
    /\ build \in {"non_blocking", "blocking"}
    /\ cSedna_s_new
    /\ sca = NoDetails
    /\ Alone
    /\ arg = <<>>
    /\ out = NoOutcome

NextPeer ==
    \/ \E t \in Threads : Beside(t) /\ Initialize(t)
    \/ \E t \in Threads, r \in ConnectResponses : InitializeReturn(t, r)
    \/ \E t \in Threads : ExecuteBeside(t)
    \/ \E t \in Threads : Beside(t) /\ ExecuteLock(t)
    \/ \E t \in Threads, r \in ExecuteResponses, script \in ResultScripts :
          ScriptRead(r, script) /\ ExecuteReturnBeside(t, r, script)
    \/ \E t \in Threads : PeerExecute(t)
    \/ \E t \in Threads : PeerExecuteLock(t)
    \/ \E t \in Threads : PeerExecuteReturn(t)

\* Two objects, each executing queries, in either build.
SpecPeer == InitPeer /\ [][NextPeer]_vars

----------------------------------------------------------------------------
\* The drain of a result set, byte by byte.  A record arrives as the values
\* SEgetData returns until it returns 0; a byte is known by its place in the
\* record as the driver delivers it (1, 2, ...), so that what the drain keeps
\* and what it drops can be told apart.

\* Bound on the SEgetData calls that deliver data for one record, and on the
\* bytes one call delivers (RESULT_BUF_LEN - 1 in the extension).
MaxReads == 2

MaxBytes == 2

\* The records the driver can deliver: for each the values of bytes_read.
Reads == UNION {[1..n -> 1..MaxBytes] : n \in 0..MaxReads}

ResultSets == UNION {[1..n -> Reads] : n \in 0..MaxRecords}

RECURSIVE Sum(_)
Sum(reads) == IF reads = <<>> THEN 0 ELSE Head(reads) + Sum(Tail(reads))

\* buffer after the k-th SEgetData of a record: the bytes it delivered.
Buffer(reads, k) ==
    LET before == Sum(SubSeq(reads, 1, k - 1))
    IN  [i \in 1..reads[k] |-> before + i]

\* sedna_read as it would be if strip_n were not cleared after the first
\* buffer.
RECURSIVE sedna_read_str_StripEach(_, _, _, _)
sedna_read_str_StripEach(reads, k, strip_n, str) ==
    IF k > Len(reads)
    THEN str
    ELSE IF strip_n = 1
    THEN sedna_read_str_StripEach(reads, k + 1, 1, str \o Tail(Buffer(reads, k)))
    ELSE sedna_read_str_StripEach(reads, k + 1, 0, str \o Buffer(reads, k))

\* sedna_read, the string it builds: from the k-th SEgetData on, with str
\* collected so far.
RECURSIVE sedna_read_str(_, _, _, _)
sedna_read_str(reads, k, strip_n, str) ==
    IF k > Len(reads)
    THEN str
    ELSE IF strip_n = 1
    THEN sedna_read_str(reads, k + 1, 0, str \o Tail(Buffer(reads, k)))
    ELSE sedna_read_str(reads, k + 1, strip_n, str \o Buffer(reads, k))

\* sedna_get_results, before the first SEnext.
InitDrain ==
    /\ arg \in ResultSets
    /\ out = [done |-> FALSE, how |-> "none", value |-> <<>>, strip_n |-> 0]
    /\ build = "non_blocking"
    /\ cSedna_s_new
    /\ sca = NoDetails
    /\ Alone

\* sedna_get_results, one turn of the loop: SEnext has a record, sedna_read
\* reads it, the string is pushed and strip_n is set.
NextRecord ==
    /\ ~out.done
    /\ Len(out.value) < Len(arg)
    /\ out' = [out EXCEPT
                 !.value = Append(@, sedna_read_str(arg[Len(@) + 1], 1, out.strip_n, <<>>)),
                 !.strip_n = 1]
    /\ UNCHANGED <<build, phase, conn, ivAutocommit, mutex, pc, stack, closes, last,
                   peer, yielded, sca, arg>>

\* sedna_get_results, the end of the loop: SEDNA_RESULT_END, return set.
ResultEnd ==
    /\ ~out.done
    /\ Len(out.value) = Len(arg)
    /\ out' = [out EXCEPT !.done = TRUE, !.how = "return"]
    /\ UNCHANGED <<build, phase, conn, ivAutocommit, mutex, pc, stack, closes, last,
                   peer, yielded, sca, arg>>

\* The drain of every result set within the bounds.
SpecDrain == InitDrain /\ [][NextRecord \/ ResultEnd]_vars

----------------------------------------------------------------------------
\* The message sedna_err builds from SEgetLastErrorMsg.  A text is a sequence
\* of pieces: a word "w" (any run of characters without a line break), the
\* line break, and the nine characters "Details: ".

\* Bound on the pieces of an error text.
MaxText == 9

TextPieces == {"w", "\n", "Details: "}

ErrorTexts == UNION {[1..n -> TextPieces] : n \in 0..MaxText}

\* strstr(s + from, "\n"): the place of the first line break at or after
\* `from`, before the end of the C string; 0 for NULL.
StrNewline(s, from) ==
    LET end == IF \E i \in from..Len(s) : s[i] = "NUL"
               THEN CHOOSE i \in from..Len(s) :
                        s[i] = "NUL" /\ \A j \in from..(i - 1) : s[j] # "NUL"
               ELSE Len(s) + 1
        hits == {i \in from..(end - 1) : s[i] = "\n"}
    IN  IF hits = {} THEN 0 ELSE CHOOSE i \in hits : \A j \in hits : i <= j

\* strstr(s + from, "\nDetails: ")
StrDetails(s, from) ==
    LET hits == {i \in from..(Len(s) - 1) : s[i] = "\n" /\ s[i + 1] = "Details: "}
    IN  IF hits = {} THEN 0 ELSE CHOOSE i \in hits : \A j \in hits : i <= j

\* The C string that starts at `from`: up to the first NUL.
RECURSIVE CString(_, _)
CString(s, from) ==
    IF from > Len(s) \/ s[from] = "NUL" THEN <<>> ELSE <<s[from]>> \o CString(s, from + 1)

\* while((p = strstr(details, "\n")) != NULL) strncpy(p, " ", 1)
Spaced(str) == [i \in 1..Len(str) |-> IF str[i] = "\n" THEN " " ELSE str[i]]

\* sedna_err from SEgetLastErrorMsg on: the outcomes it can have.  With no
\* line break in the text err is NULL and strstr(err, ...) is undefined: the
\* process crashes, or details comes out NULL and "Unknown error." is raised.
sedna_err_msg(msg) ==
    LET err == StrNewline(msg, 1)
        details == StrDetails(msg, err)
        p == StrNewline(msg, err + 1)
        buf == IF p # 0 THEN [msg EXCEPT ![p] = "NUL"] ELSE msg
    IN  IF err = 0
        THEN {[done |-> TRUE, how |-> "crash", value |-> <<>>],
              [done |-> TRUE, how |-> "raise", value |-> <<"Unknown error.">>]}
        ELSE IF details # 0
        THEN {[done |-> TRUE, how |-> "raise",
               value |-> CString(buf, err + 1) \o <<" (">> \o
                         Spaced(CString(buf, details + 2)) \o <<")">>]}
        ELSE {[done |-> TRUE, how |-> "raise", value |-> CString(buf, err + 1)]}

\* The driver has left some error text.
InitErr ==
    /\ arg \in ErrorTexts
    /\ out = NoOutcome
    /\ build = "non_blocking"
    /\ cSedna_s_new
    /\ sca = NoDetails
    /\ Alone

\* sedna_err is called.
Classify ==
    /\ ~out.done
    /\ out' \in sedna_err_msg(arg)
    /\ UNCHANGED <<build, phase, conn, ivAutocommit, mutex, pc, stack, closes, last,
                   peer, yielded, sca, arg>>

\* sedna_err on every error text within the bound.
SpecErr == InitErr /\ [][Classify]_vars

----------------------------------------------------------------------------
\* cSedna_load_document call by call, with the number of bytes each
\* SEloadData is given.

LOAD_BUF_LEN == 8192

\* The documents: an IO or a String of `len` bytes; the driver answers
\* SEDNA_DATA_CHUNK_LOADED to the first `accepted` calls of SEloadData and
\* `end` to SEendLoadData.
Documents ==
    [kind : {"T_FILE", "T_STRING"},
     len : {q * LOAD_BUF_LEN + d : q \in 0..MaxChunks, d \in {0, 1, LOAD_BUF_LEN - 1}},
     accepted : 0..(MaxChunks + 1),
     end : {"SEDNA_BULK_LOAD_SUCCEEDED", "SEDNA_BULK_LOAD_FAILED"}]

\* RSTRING_LEN(document)
RSTRING_LEN(document) == document.len

\* rb_funcall(document, rb_intern("read"), 1, INT2NUM(LOAD_BUF_LEN)): what
\* IO#read returns when `rest` bytes are left -- at most LOAD_BUF_LEN of
\* them, nil (0 here) at the end of the file.
IORead(rest) == IF rest > LOAD_BUF_LEN THEN LOAD_BUF_LEN ELSE rest

\* cSedna_load_document after the connection test, before the first read.
InitLoad ==
    /\ arg \in Documents
    /\ out = [done |-> FALSE, how |-> "none", value |-> <<>>, calls |-> <<>>, err |-> NoErr]
    /\ build = "non_blocking"
    /\ cSedna_s_new
    /\ sca = NoDetails
    /\ Alone

\* One call of SEloadData with its VERIFY_RES: a turn of the while loop for
\* an IO, the single call with the whole of a String that is not empty.
LoadData ==
    /\ ~out.done
    /\ LET rest == arg.len - Sum(out.value)
           bytes == IF arg.kind = "T_FILE" THEN IORead(rest) ELSE RSTRING_LEN(arg)
           loaded == Len(out.value) < arg.accepted
       IN  /\ IF arg.kind = "T_FILE" THEN bytes > 0 ELSE out.value = <<>> /\ bytes > 0
           /\ out' = [out EXCEPT !.value = Append(@, bytes),
                                 !.calls = Append(@, "SEloadData"),
                                 !.done = ~loaded,
                                 !.how = IF loaded THEN "none" ELSE "raise",
                                 !.err = IF loaded THEN NoErr ELSE sedna_err("SEDNA_ERROR")]
    /\ UNCHANGED <<build, phase, conn, ivAutocommit, mutex, pc, stack, closes, last,
                   peer, yielded, sca, arg>>

\* The source is exhausted: "Document is empty." if SEloadData was never
\* called, else SEendLoadData with its VERIFY_RES and return Qnil.
LoadEnd ==
    /\ ~out.done
    /\ IF arg.kind = "T_FILE" THEN Sum(out.value) = arg.len
       ELSE out.value # <<>> \/ RSTRING_LEN(arg) = 0
    /\ IF out.value = <<>>
       THEN out' = [out EXCEPT !.done = TRUE, !.how = "raise",
                               !.err = Raise("Generic", "Document is empty.")]
       ELSE out' = [out EXCEPT !.done = TRUE,
                               !.calls = Append(@, "SEendLoadData"),
                               !.how = IF arg.end = "SEDNA_BULK_LOAD_SUCCEEDED"
                                       THEN "return" ELSE "raise",
                               !.err = VERIFY_RES("SEDNA_BULK_LOAD_SUCCEEDED", arg.end)]
    /\ UNCHANGED <<build, phase, conn, ivAutocommit, mutex, pc, stack, closes, last,
                   peer, yielded, sca, arg>>

\* The load of every document within the bounds.
SpecLoad == InitLoad /\ [][LoadData \/ LoadEnd]_vars

----------------------------------------------------------------------------
\* Properties.

\* The driver's autocommit mode that corresponds to @autocommit.
Preference == ivAutocommit # "Qfalse"

\* C1: when the block of a transaction unwinds with signal E, a rollback is
\* issued and the signal that reaches the caller is E, whatever the driver
\* answers to the rollback and to the autocommit call.
C1_UnwindKeepsSignal ==
    last.op = "transaction:unwind"
        => /\ Count(last.calls, "SErollback") = 1
           /\ last.err = last.sig

C3_RestoredOnEveryPath ==
    last.op \in {"commit", "rollback"}
        => /\ conn.autocommit = Preference
           /\ last.err # NoErr => last.err.kind = "Transaction"

C5_RollbackNeverRaises ==
    [][\A t \in Threads, rr \in RollbackResponses, ra \in AttrResponses :
          Rollback(t, rr, ra) /\ SEtransactionStatus(conn) # "Active"
              => /\ Count(last'.calls, "SErollback") = 0
                 /\ last'.err = NoErr
                 /\ last.op = "rollback" /\ Count(last.calls, "SErollback") = 0
                       => conn' = conn /\ ivAutocommit' = ivAutocommit]_vars

C7_SecondCloseIsSilent ==
    [][\A t \in Threads, r \in CloseResponses :
          Close(t, r) /\ last.op = "close"
              => /\ last'.calls = <<>>
                 /\ last'.err = NoErr]_vars

\* C8: after a connect the driver has refused -- in initialize or in reset --
\* the status is Closed, connected? answers false, and close, reset and the
\* teardown at GC do not call SEclose.
C8_FailedConnectIsClosed ==
    [][(last.op \in {"initialize", "reset"} /\ Count(last.calls, "SEconnect") = 1
            /\ last.err # NoErr)
          => /\ SEconnectionStatus(conn) = "Closed"
             /\ last'.op = "connected?" => last'.value = "false"
             /\ last'.op \in {"close", "free", "reset", "reset:dispatch"}
                   => Count(last'.calls, "SEclose") = 0]_vars

\* The reconnect of a reset has been refused by the driver, which left the
\* status at Failed; the object has it at Closed.
C8_Witness ==
    /\ last.op = "reset"
    /\ last.calls = <<"SEconnect">>
    /\ last.err = sedna_err("SEDNA_AUTHENTICATION_FAILED")
    /\ SEconnectionStatus(conn) = "Closed"

\* C9: SEclose is called at most once per opened connection and never while
\* the status is Closed, and the teardown at GC never raises.
C9_CloseAtMostOnce ==
    [][/\ closes' <= 1
       /\ Count(last'.calls, "SEclose") > 0 => SEconnectionStatus(conn) # "Closed"
       /\ last'.op = "free" => last'.err = NoErr]_vars

\* C10: execute and load_document on a connection whose status is not Ok
\* raise the Connection error, make no driver call and leave the caller
\* outside the driver.
C10_NotConnectedIsRefused ==
    [][/\ \A t \in Threads :
             Execute(t) /\ SEconnectionStatus(conn) # "Ok"
                 => /\ last'.err = Raise("Connection", "Connection is closed.")
                    /\ last'.calls = <<>>
                    /\ pc' = pc
       /\ \A t \in Threads, in \in LoadInputs :
             LoadDocument(t, in) /\ SEconnectionStatus(conn) # "Ok"
                 => /\ last'.err = Raise("Connection", "Connection is closed.")
                    /\ last'.calls = <<>>]_vars

\* execute has been refused on a connection that is neither open nor closed:
\* the driver has marked it as failed.
C10_Witness ==
    /\ last.op = "execute"
    /\ last.err = Raise("Connection", "Connection is closed.")
    /\ last.calls = <<>>
    /\ SEconnectionStatus(conn) = "Failed"

\* The driver calls of one execute: SEexecute and the calls that drain its
\* result.
ExecuteCalls == {"SEexecute", "SEnext", "SEgetData"}

\* C11: of two threads that call execute on the object at most one is inside
\* the driver, and while it is, no step of the other thread makes a driver
\* call of an execute: the calls of the two are not interleaved.
C11_ExecutionsNeverInterleave ==
    [][/\ \A t, u \in Threads : pc'[t] = "exec" /\ pc'[u] = "exec" => t = u
       /\ \A u \in Threads :
             pc[u] = "exec" /\ pc'[u] = "exec"
                 => \A i \in DOMAIN last'.calls : last'.calls[i] \notin ExecuteCalls]_vars

\* One thread is inside SEexecute and the other, which has called execute
\* too, waits for @mutex.
C11_Witness ==
    /\ pc[1] = "exec"
    /\ mutex = 1
    /\ pc[2] = "exec_wait"

\* A thread other than t is inside SEexecute for B, and A is connected with
\* no thread in any of its methods.
PeerInFlight(t) ==
    /\ \E u \in Threads \ {t} : peer.pc[u] = "exec"
    /\ peer.pc[t] = "idle"
    /\ phase = "live"
    /\ SEconnectionStatus(conn) = "Ok"

\* C12, as claimed: while an execute on B is in flight, an execute on A can
\* start -- it enters the driver without waiting -- and can complete.
C12_OtherSessionNeverBlocks ==
    \A t \in Threads :
        /\ PeerInFlight(t) /\ pc = Idle
              => ENABLED (ExecuteBeside(t) /\ pc'[t] = "exec")
        /\ PeerInFlight(t) /\ pc[t] = "exec"
              => ENABLED (\E r \in ExecuteResponses, script \in ResultScripts :
                             ExecuteReturnBeside(t, r, script))

\* C12, amended: the same in the non-blocking build.
C12_OtherSessionNeverBlocksNonBlocking ==
    build = "non_blocking" => C12_OtherSessionNeverBlocks

\* An execute on A has been through the driver and has returned while a
\* thread is inside SEexecute for B.
C12_Witness ==
    /\ build = "non_blocking"
    /\ last.op = "execute"
    /\ Count(last.calls, "SEexecute") = 1
    /\ pc = Idle
    /\ \E u \in Threads : peer.pc[u] = "exec"

\* The driver calls the guard is said to cover.
GuardedCalls ==
    {"SEconnect", "SEexecute", "SEloadData", "SEbegin", "SEcommit", "SErollback",
     "SEsetConnectionAttr"}

\* C13: a step that makes one of these driver calls, or that changes the
\* connection struct or @autocommit, is taken while @mutex is held.
C13_DriverCallsUnderGuard ==
    [][((\E i \in DOMAIN last'.calls : last'.calls[i] \in GuardedCalls)
            \/ conn' # conn \/ ivAutocommit' # ivAutocommit)
          => mutex # 0]_vars

\* The bytes of a record as the driver delivers them.
Delivered(reads) == [j \in 1..Sum(reads) |-> j]

\* C14: if the driver has put one byte in front of every record but the
\* first, the drain returns as many records as were delivered, in order, the
\* first as delivered and each later one as delivered without its first
\* byte.
C14_OneByteOffLaterRecords ==
    out.done /\ (\A i \in 2..Len(arg) : arg[i] # <<>>)
        => /\ Len(out.value) = Len(arg)
           /\ \A i \in 1..Len(arg) :
                 out.value[i] = IF i = 1 THEN Delivered(arg[i]) ELSE Tail(Delivered(arg[i]))

\* A second record that came in two reads of two bytes has been drained to
\* its three last bytes, after a first record of more than one read.
C14_Witness ==
    /\ out.done
    /\ Len(arg) = 2
    /\ arg[1] = <<2, 1>>
    /\ arg[2] = <<2, 2>>
    /\ out.value = <<<<1, 2, 3>>, <<2, 3, 4>>>>

\* The place of the first error in what the driver answers to a drain: the
\* record whose data cannot be read, one past the last record if SEnext
\* fails there, and 0 if there is none.
FirstError(script) ==
    LET bad == {i \in 1..Len(script.records) : script.records[i] # "data"}
    IN  IF bad # {} THEN CHOOSE i \in bad : \A j \in bad : i <= j
        ELSE IF script.end = "SEDNA_ERROR" THEN Len(script.records) + 1
        ELSE 0

\* The driver calls that drain n records: SEnext, then SEgetData for the data
\* and SEgetData for its end.
Drained(n) == [i \in 1..(3 * n) |-> IF i % 3 = 1 THEN "SEnext" ELSE "SEgetData"]

\* C15: if SEnext or SEgetData reports an error while a result set is
\* drained, execute raises the Generic error with no driver call after the
\* failed one and returns no record; if SEnext reports the end, execute
\* returns the array.
C15_DrainFailsAtOnce ==
    [][\A t \in Threads, r \in ExecuteResponses, script \in ResultScripts :
          ExecuteReturn(t, r, script) /\ r.code = "SEDNA_QUERY_SUCCEEDED"
              => LET k == FirstError(script)
                     n == Len(script.records)
                 IN  IF k = 0
                     THEN /\ last'.err = NoErr
                          /\ last'.value = "array"
                          /\ last'.calls = <<"SEexecute">> \o Drained(n) \o <<"SEnext">>
                     ELSE /\ last'.err = [kind |-> "Generic", code |-> "SEDNA_ERROR"]
                          /\ last'.value = "none"
                          /\ last'.calls = <<"SEexecute">> \o Drained(k - 1) \o
                                 (IF k <= n THEN <<"SEnext", "SEgetData">> ELSE <<"SEnext">>)]_vars

\* The chunks a document source yields: a String is passed in one piece, an
\* IO in as many pieces as read returns.
Pieces(in) == IF in.kind = "T_STRING" /\ in.chunks > 1 THEN 1 ELSE in.chunks

\* C16: on an open connection, load_document of an empty source raises
\* "Document is empty." without a driver call; of a source of N >= 1 chunks
\* that the driver accepts it calls SEloadData N times and then SEendLoadData
\* once, and returns normally exactly if that reports
\* SEDNA_BULK_LOAD_SUCCEEDED.
C16_LoadCallsPerChunk ==
    [][\A t \in Threads, in \in LoadInputs :
          LoadDocument(t, in) /\ SEconnectionStatus(conn) = "Ok"
              => /\ Pieces(in) = 0
                    => /\ last'.err = Raise("Generic", "Document is empty.")
                       /\ last'.calls = <<>>
                 /\ Pieces(in) >= 1 /\ in.accepted >= Pieces(in)
                    => /\ last'.calls = [i \in 1..(Pieces(in) + 1) |->
                                            IF i <= Pieces(in) THEN "SEloadData"
                                            ELSE "SEendLoadData"]
                       /\ last'.err = NoErr <=> in.end = "SEDNA_BULK_LOAD_SUCCEEDED"
                       /\ last'.err # NoErr => last'.err.kind = "Generic"]_vars

\* An IO of two chunks has been loaded: two SEloadData calls, one
\* SEendLoadData, no exception.
C16_Witness ==
    /\ last.op = "load_document"
    /\ last.calls = <<"SEloadData", "SEloadData", "SEendLoadData">>
    /\ last.err = NoErr
    /\ last.value = "nil"

\* C17: the text "Header\nActual message\nDetails: line one\nline two\n" is
\* raised as "Actual message (line one line two)": the line after the header,
\* then the details in parentheses with the line break inside them turned
\* into a space.
C17_MessageWithDetails ==
    out.done /\ arg = <<"w", "\n", "w", "\n", "Details: ", "w", "\n", "w", "\n">>
        => /\ out.how = "raise"
           /\ out.value = <<"w", " (", "w", " ", "w", ")">>

\* C18: a text without a line break is raised as "Unknown error.".
C18_UnknownError ==
    out.done /\ (\A i \in DOMAIN arg : arg[i] # "\n")
        => /\ out.how = "raise"
           /\ out.value = <<"Unknown error.">>

\* C19: an exception made from a Driver result code has the kind of the
\* table: Authentication for authentication-failed, Connection for
\* open-session-failed and close-session-failed, Transaction for begin-,
\* commit- and rollback-transaction-failed, Generic for any other code; and
\* every exception an operation raises of its own (one that is not the signal
\* of the caller's block passing through) has one of these four kinds.
C19_KindByResultCode ==
    (last.err # NoErr /\ last.err \notin Signals)
        => /\ last.err.kind \in {"Authentication", "Connection", "Transaction", "Generic"}
           /\ (last.err.code = "SEDNA_AUTHENTICATION_FAILED")
                  => last.err.kind = "Authentication"
           /\ (last.err.code \in {"SEDNA_OPEN_SESSION_FAILED", "SEDNA_CLOSE_SESSION_FAILED"})
                  => last.err.kind = "Connection"
           /\ (last.err.code \in {"SEDNA_BEGIN_TRANSACTION_FAILED",
                                  "SEDNA_COMMIT_TRANSACTION_FAILED",
                                  "SEDNA_ROLLBACK_TRANSACTION_FAILED"})
                  => last.err.kind = "Transaction"
           /\ (last.err.code \in {"SEDNA_ERROR", "SEDNA_QUERY_FAILED", "SEDNA_BULK_LOAD_FAILED",
                                  "SEDNA_GET_DATA_FAILED"})
                  => last.err.kind = "Generic"

\* A commit the Driver has refused was raised as a Transaction error.
C19_Witness ==
    /\ last.err.code = "SEDNA_COMMIT_TRANSACTION_FAILED"
    /\ last.err.kind = "Transaction"

\* C20: when Sedna.connect with a block has returned or raised, the block
\* having been entered, the connection status is Closed, and if the block
\* has unwound, the exception that comes out is the block's signal.
C20_BlockConnectionIsClosed ==
    (last.op = "connect")
        => /\ SEconnectionStatus(conn) = "Closed"
           /\ last.sig # NoErr => last.err = last.sig

\* C21: reset on a connected object calls SEclose and then SEconnect with the
\* details given at construction (a default for each one not given); on a
\* closed object it calls SEconnect alone; when the close fails reset raises
\* and goes no further; when the connect succeeds the status is Ok.
C21_ResetClosesThenConnects ==
    [][/\ (last'.op = "reset:dispatch" \/ (last'.op = "reset" /\ pc' = pc))
             => /\ SEconnectionStatus(conn) = "Ok" => last'.calls = <<"SEclose">>
                /\ SEconnectionStatus(conn) = "Closed" => last'.calls = <<>>
                /\ last'.err # NoErr
                      => /\ last'.calls = <<"SEclose">>
                         /\ pc' = pc
                         /\ sca' = sca
                /\ last'.err = NoErr
                      => /\ \E t \in Threads : /\ pc[t] = "idle"
                                               /\ pc'[t] \in {"reset", "reset_wait"}
                         /\ sca'.sent.host =
                               IF sca.given.host = "Qnil" THEN "DEFAULT_HOST" ELSE sca.given.host
                         /\ sca'.sent.database =
                               IF sca.given.database = "Qnil" THEN "DEFAULT_DB"
                               ELSE sca.given.database
                         /\ sca'.sent.username =
                               IF sca.given.username = "Qnil" THEN "DEFAULT_USER"
                               ELSE sca.given.username
                         /\ sca'.sent.password =
                               IF sca.given.password = "Qnil" THEN "DEFAULT_PW"
                               ELSE sca.given.password
       /\ (last'.op = "reset" /\ pc' # pc)
             => /\ last'.calls = <<"SEconnect">>
                /\ sca' = sca
                /\ last'.err = NoErr => SEconnectionStatus(conn') = "Ok"]_vars

\* A reset has reconnected an object that was built with a host and a
\* password of its own.
C21_Witness ==
    /\ last.op = "reset"
    /\ last.calls = <<"SEconnect">>
    /\ last.err = NoErr
    /\ SEconnectionStatus(conn) = "Ok"
    /\ sca.given.host = "h"
    /\ sca.given.username = "Qnil"
    /\ sca.sent = [host |-> "h", database |-> "DEFAULT_DB",
                   username |-> "DEFAULT_USER", password |-> "DEFAULT_PW"]

\* C22: begin sets the driver's autocommit off before it calls SEbegin; when
\* the driver reports that the begin has failed, a Transaction error is
\* raised, the driver's autocommit stays off, @autocommit is unchanged and
\* the block, if there is one, is not entered; in every other case the block
\* is entered once.
C22_BodyOnceUnlessBeginFails ==
    [][\A t \in Threads, block \in BOOLEAN, ra \in AttrResponses, rb \in BeginResponses :
          Transaction(t, block, ra, rb)
              => /\ (\E i \in DOMAIN last'.calls : last'.calls[i] = "SEbegin")
                        => last'.calls = <<"SEsetConnectionAttr", "SEbegin">>
                 /\ IF last'.calls = <<"SEsetConnectionAttr", "SEbegin">> /\ last'.err # NoErr
                    THEN /\ last'.err.kind = "Transaction"
                         /\ conn'.autocommit = FALSE
                         /\ ivAutocommit' = ivAutocommit
                         /\ stack' = stack
                    ELSE block => Len(stack'[t]) = Len(stack[t]) + 1]_vars

\* C22, amended: as above, except that the block is entered once only when
\* SEbegin has succeeded; when the driver refuses the autocommit setting that
\* precedes the begin, the Generic error of that setting is raised, SEbegin
\* is not called and the block is not entered.
C22_BodyOnceWhenBegun ==
    [][\A t \in Threads, block \in BOOLEAN, ra \in AttrResponses, rb \in BeginResponses :
          Transaction(t, block, ra, rb)
              => /\ (\E i \in DOMAIN last'.calls : last'.calls[i] = "SEbegin")
                        => last'.calls = <<"SEsetConnectionAttr", "SEbegin">>
                 /\ ivAutocommit' = ivAutocommit
                 /\ IF last'.calls = <<"SEsetConnectionAttr", "SEbegin">> /\ last'.err # NoErr
                    THEN /\ last'.err = sedna_err("SEDNA_BEGIN_TRANSACTION_FAILED")
                         /\ last'.err.kind = "Transaction"
                         /\ conn'.autocommit = FALSE
                         /\ stack' = stack
                    ELSE IF last'.err # NoErr
                    THEN /\ ra = "SEDNA_ERROR"
                         /\ last'.err = [kind |-> "Generic", code |-> "SEDNA_ERROR"]
                         /\ last'.calls = <<"SEsetConnectionAttr">>
                         /\ conn' = conn
                         /\ stack' = stack
                    ELSE /\ last'.calls = <<"SEsetConnectionAttr", "SEbegin">>
                         /\ conn'.autocommit = FALSE
                         /\ SEtransactionStatus(conn') = "Active"
                         /\ Len(stack'[t]) = Len(stack[t]) + (IF block THEN 1 ELSE 0)
                         /\ \A u \in Threads \ {t} : stack'[u] = stack[u]]_vars

\* The driver has refused the begin of a transaction with a block while no
\* transaction was active: the block is not entered, the driver's autocommit
\* is off and @autocommit still says on.
C22_Witness ==
    /\ last.op = "transaction:begin"
    /\ last.calls = <<"SEsetConnectionAttr", "SEbegin">>
    /\ last.err = [kind |-> "Transaction", code |-> "SEDNA_BEGIN_TRANSACTION_FAILED"]
    /\ SEtransactionStatus(conn) = "None"
    /\ stack = NoFrames
    /\ conn.autocommit = FALSE
    /\ ivAutocommit = "Qtrue"

\* C23: no call of SEloadData, for a String as for an IO, is given more than
\* LOAD_BUF_LEN bytes; and when the driver does not answer
\* SEDNA_DATA_CHUNK_LOADED to a call, a Generic error is raised and neither
\* SEloadData nor SEendLoadData is called after it.
C23_ChunksWithinBuffer ==
    /\ \A i \in DOMAIN out.value : out.value[i] <= LOAD_BUF_LEN
    /\ (Len(out.value) > arg.accepted)
          => /\ out.done
             /\ out.how = "raise"
             /\ out.err.kind = "Generic"
             /\ out.calls = [i \in 1..(arg.accepted + 1) |-> "SEloadData"]

C25_AutocommitMatchesPreference ==
    (/\ phase = "live"
     /\ SEconnectionStatus(conn) = "Ok"
     /\ pc = Idle
     /\ stack = NoFrames
     /\ SEtransactionStatus(conn) = "None")
        => conn.autocommit = Preference

\* C26: when the block of a transaction has itself ended the transaction
\* with commit or rollback, then if the block returns, the commit that
\* follows calls no SEcommit and the Transaction error "No transaction in
\* progress" is raised; if the block unwinds, the rollback that follows calls
\* no SErollback and the signal of the block is what comes out.
C26_BodyEndedTransaction ==
    [][\A t \in Threads :
          (/\ stack[t] # <<>>
           /\ last.op \in {"commit", "rollback"}
           /\ last.err = NoErr
           /\ SEtransactionStatus(conn) = "None")
              => /\ \A rc \in CommitResponses, ra \in AttrResponses :
                       BlockReturn(t, rc, ra)
                           => /\ Count(last'.calls, "SEcommit") = 0
                              /\ last'.err = Raise("Transaction",
                                                   "No transaction in progress, cannot commit.")
                 /\ \A sig \in Signals, rr \in RollbackResponses, ra \in AttrResponses :
                       BlockUnwind(t, sig, rr, ra)
                           => /\ Count(last'.calls, "SErollback") = 0
                              /\ last'.err = sig]_vars

====
